---- MODULE Spec2Model ----
(***************************************************************************)
(* Model of the flashbots mev-blocks read API (server/premerge.js and the  *)
(* identical handlers of server/main.js): query-parameter validation, the  *)
(* regular-channel and megabundle-channel aggregations, and the merge that *)
(* reconciles the two result sets into one block list.                     *)
(***************************************************************************)
EXTENDS Integers, Sequences, FiniteSets, TLC

VARIABLES
  db,                    \* the data store: (channel, block number) -> transaction list
  pc,                    \* position of the request handler
  op,                    \* which operation the request addresses
  query,                 \* req.query: the raw query-string parameters
  limit,                 \* the handler's local `limit`
  beforeInt,             \* the handler's local `beforeInt`
  blockNumInt,           \* the handler's local `blockNumInt`
  miner,                 \* the handler's local `miner` (after canonicalisation)
  from,                  \* the handler's local `from` (after canonicalisation)
  mergedBundles,         \* rows of the regular-channel aggregation
  megabundles,           \* rows of the megabundle-channel aggregation
  inferredBundleBlocks,  \* the merged block list
  transactions,          \* rows fetched by the transactions operation
  res,                   \* the response sent to the caller
  issued,                \* the data-store queries issued so far, in order
  failed,                \* the step that raised the error the catch block handled
  sends,                 \* the number of responses sent
  route                  \* the path the era router chose for the request

vars == <<db, pc, op, query, limit, beforeInt, blockNumInt, miner, from,
          mergedBundles, megabundles, inferredBundleBlocks, transactions, res,
          issued, failed, sends, route>>

-----------------------------------------------------------------------------
(* Bounds of the model *)

\* number of (channel, block) aggregates the data store holds
MaxViews == 2
\* number of query-string parameters one request supplies
MaxParams == 2

\* block numbers of the store; 9 has fewer digits than 10 and 11
BlockNumbers == {9, 10, 11}
Hashes == {"A", "B"}
Channels == {"merged", "mega"}

-----------------------------------------------------------------------------
(* JavaScript values *)

\* an absent query parameter (undefined) and a supplied one (a string of characters)
Absent == [present |-> FALSE, chars |-> <<>>]
Str(s) == [present |-> TRUE, chars |-> s]

\* a local that is undefined, or holds a number
Undefined == [def |-> FALSE, val |-> 0]
Num(n) == [def |-> TRUE, val |-> n]

\* an address local: undefined or a canonical address
NoAddr == [def |-> FALSE, addr |-> ""]
Addr(a) == [def |-> TRUE, addr |-> a]

DigitChars == <<"0", "1", "2", "3", "4", "5", "6", "7", "8", "9">>
IsDigit(c) == \E i \in 1..10 : DigitChars[i] = c
DigitVal(c) == (CHOOSE i \in 1..10 : DigitChars[i] = c) - 1

\* String(n) for n >= 0, as its decimal digits
RECURSIVE NumberToString(_)
NumberToString(n) ==
  IF n < 10 THEN <<DigitChars[n + 1]>> ELSE NumberToString(n \div 10) \o <<DigitChars[(n % 10) + 1]>>

RECURSIVE SkipSpaces(_)
SkipSpaces(s) == IF Len(s) > 0 /\ Head(s) = " " THEN SkipSpaces(Tail(s)) ELSE s

RECURSIVE DigitPrefix(_)
DigitPrefix(s) ==
  IF Len(s) > 0 /\ IsDigit(Head(s)) THEN <<Head(s)>> \o DigitPrefix(Tail(s)) ELSE <<>>

RECURSIVE DigitsValue(_, _)
DigitsValue(s, acc) ==
  IF Len(s) = 0 THEN acc ELSE DigitsValue(Tail(s), 10 * acc + DigitVal(Head(s)))

\* parseInt(string): leading blanks skipped, an optional sign, then the longest
\* run of decimal digits; NaN (here: undefined) when there is no digit.
\* parseInt(undefined) parses the text "undefined" and is NaN as well.
\* (The hexadecimal form "0x..." is not among the inputs below.)
HasSign(s) == Len(s) > 0 /\ Head(s) \in {"-", "+"}
Unsigned(s) == IF HasSign(s) THEN Tail(s) ELSE s
parseInt(raw) ==
  IF ~raw.present THEN Undefined
  ELSE LET t == SkipSpaces(raw.chars)
           d == DigitPrefix(Unsigned(t))
       IN IF Len(d) = 0 THEN Undefined
          ELSE IF HasSign(t) /\ Head(t) = "-" THEN Num(0 - DigitsValue(d, 0))
          ELSE Num(DigitsValue(d, 0))
isNaN(n) == ~n.def

\* truthiness of a query parameter: undefined and "" are falsy
Truthy(raw) == raw.present /\ Len(raw.chars) > 0

\* `x || null` on a number local: undefined and 0 both become null
OrNull(n) == IF n.def /\ n.val # 0 THEN n ELSE Undefined

-----------------------------------------------------------------------------
(* The data store *)

\* the lists of distinct members of S
RECURSIVE DistinctLists(_)
DistinctLists(S) ==
  {<<>>} \cup UNION {{<<h>> \o l : l \in DistinctLists(S \ {h})} : h \in S}
\* the transaction lists (hashes in (bundle_index, tx_index) order) a block of a
\* channel may hold; <<"B">> is <<"A">> with the two hashes renamed
TxLists == DistinctLists(Hashes) \ {<<>>, <<"B">>}

\* a block-aggregate slot of the store: one channel's view of one block
Slots == Channels \X BlockNumbers
Stores == UNION {[S -> TxLists] : S \in {T \in SUBSET Slots : Cardinality(T) <= MaxViews}}

\* from_address of the transaction with a given hash, as stored (canonical form)
Sender(h) == IF h = "A" THEN "0xAa" ELSE "0xBb"
\* miner of a block, as stored by both record families
MinerOf(n) == IF n = 10 THEN "0xM2" ELSE "0xM1"

\* json_build_object(...): a transaction of a fetched row; it has no is_megabundle
TxRow(h) == [transaction_hash |-> h, eoa_address |-> Sender(h), is_megabundle |-> FALSE]
TxRows(hs) == [i \in 1..Len(hs) |-> TxRow(hs[i])]

\* the per-transaction amounts the block-level sums are taken over
CoinbaseDiff(h) == IF h = "A" THEN 7 ELSE 5
EthSentToCoinbase(h) == IF h = "A" THEN 1 ELSE 2
GasUsed(h) == IF h = "A" THEN 2 ELSE 3

\* t.<column> of the transaction with hash h
Amount(column, h) ==
  CASE column = "coinbase_diff" -> CoinbaseDiff(h)
    [] column = "eth_sent_to_coinbase" -> EthSentToCoinbase(h)
    [] column = "gas_used" -> GasUsed(h)

\* sum(t.<column>) over the transactions of a block
RECURSIVE SumOver(_, _)
SumOver(column, hs) ==
  IF hs = <<>> THEN 0 ELSE Amount(column, Head(hs)) + SumOver(column, Tail(hs))

\* floor(sum(t.coinbase_diff)/sum(t.gas_used))::text
GasPrice(hs) == NumberToString(SumOver("coinbase_diff", hs) \div SumOver("gas_used", hs))

\* a row of the regular-channel aggregation
MergedRow(n, hs) ==
  [block_number |-> n,
   miner_reward |-> NumberToString(SumOver("coinbase_diff", hs)),
   fee_recipient_eth_diff |-> NumberToString(SumOver("coinbase_diff", hs)),
   miner |-> MinerOf(n),
   coinbase_transfers |-> NumberToString(SumOver("eth_sent_to_coinbase", hs)),
   eth_sent_to_fee_recipient |-> NumberToString(SumOver("eth_sent_to_coinbase", hs)),
   gas_used |-> SumOver("gas_used", hs),
   gas_price |-> GasPrice(hs),
   effective_priority_fee_gas_price |-> GasPrice(hs),
   transactions |-> TxRows(hs)]

\* a row of the megabundle-channel aggregation: its select list names
\* fee_recipient_eth_diff twice, and the later column, the sum of
\* eth_sent_to_coinbase, is the one the row object keeps; it has no
\* eth_sent_to_fee_recipient
MegaRow(n, hs) ==
  [block_number |-> n,
   miner_reward |-> NumberToString(SumOver("coinbase_diff", hs)),
   fee_recipient_eth_diff |-> NumberToString(SumOver("eth_sent_to_coinbase", hs)),
   miner |-> MinerOf(n),
   coinbase_transfers |-> NumberToString(SumOver("eth_sent_to_coinbase", hs)),
   gas_used |-> SumOver("gas_used", hs),
   gas_price |-> GasPrice(hs),
   effective_priority_fee_gas_price |-> GasPrice(hs),
   transactions |-> TxRows(hs)]

\* one row of an aggregation: group by block_number, transactions ordered by
\* (bundle_index, tx_index), which is the order the store keeps them in
BlockRow(d, ch, n) ==
  IF ch = "merged" THEN MergedRow(n, d[<<ch, n>>]) ELSE MegaRow(n, d[<<ch, n>>])

\* a WHERE clause without the sender subquery
WhereWithoutFrom(d, ch, n, before, blockNum, mnr, frm) ==
  /\ (~OrNull(before).def \/ n < before.val)
  /\ (~OrNull(blockNum).def \/ n = blockNum.val)
  /\ (~mnr.def \/ MinerOf(n) = mnr.addr)

\* the WHERE clause of either aggregation; a null parameter disables its filter
Where(d, ch, n, before, blockNum, mnr, frm) ==
  /\ (~OrNull(before).def \/ n < before.val)
  /\ (~OrNull(blockNum).def \/ n = blockNum.val)
  /\ (~mnr.def \/ MinerOf(n) = mnr.addr)
  /\ (~frm.def \/ \E i \in 1..Len(d[<<ch, n>>]) : Sender(d[<<ch, n>>][i]) = frm.addr)

Max(S) == CHOOSE x \in S : \A y \in S : y <= x

\* the members of S in descending numeric order (ORDER BY block_number DESC)
RECURSIVE Desc(_)
Desc(S) == IF S = {} THEN <<>> ELSE <<Max(S)>> \o Desc(S \ {Max(S)})

\* LIMIT n
Take(s, n) == SubSeq(s, 1, IF n < Len(s) THEN n ELSE Len(s))

Selected(d, ch, before, blockNum, mnr, frm) ==
  {n \in BlockNumbers : <<ch, n>> \in DOMAIN d /\ Where(d, ch, n, before, blockNum, mnr, frm)}

\* the aggregation over one record family
Aggregate(d, ch, before, blockNum, mnr, frm, lim) ==
  LET ns == Take(Desc(Selected(d, ch, before, blockNum, mnr, frm)), lim)
  IN [i \in 1..Len(ns) |-> BlockRow(d, ch, ns[i])]

\* select max(block_number) from blocks
LatestBlockNumber == Max(BlockNumbers)

-----------------------------------------------------------------------------
(* The reconciliation merge *)

\* a < b as strings, compared code unit by code unit
RECURSIVE StringLess(_, _)
StringLess(a, b) ==
  IF Len(b) = 0 THEN FALSE
  ELSE IF Len(a) = 0 THEN TRUE
  ELSE IF Head(a) # Head(b) THEN DigitVal(Head(a)) < DigitVal(Head(b))
  ELSE StringLess(Tail(a), Tail(b))

\* the comparison Array.prototype.sort uses when it is given no comparator:
\* the elements are converted to strings
SortBefore(x, y) == StringLess(NumberToString(x), NumberToString(y))

\* _.map(rows, 'block_number')
MapBlockNumber(rows) == [i \in 1..Len(rows) |-> rows[i].block_number]

\* _.uniq: the first occurrence of every value, in order
RECURSIVE Uniq(_)
Uniq(s) ==
  IF Len(s) = 0 THEN <<>>
  ELSE LET r == Uniq(SubSeq(s, 1, Len(s) - 1))
       IN IF \E i \in 1..Len(r) : r[i] = s[Len(s)] THEN r ELSE r \o <<s[Len(s)]>>

\* .sort(): ascending in the order of SortBefore
RECURSIVE Insert(_, _)
Insert(x, s) ==
  IF Len(s) = 0 THEN <<x>>
  ELSE IF SortBefore(x, Head(s)) THEN <<x>> \o s
  ELSE <<Head(s)>> \o Insert(x, Tail(s))
RECURSIVE Sort(_)
Sort(s) == IF Len(s) = 0 THEN <<>> ELSE Insert(Head(s), Sort(Tail(s)))

\* takeRight left out: the whole union is rebuilt
TakeRightOmitted(s, n) == s

\* _.takeRight(array, n)
TakeRight(s, n) == IF n >= Len(s) THEN s ELSE SubSeq(s, Len(s) - n + 1, Len(s))

\* the block numbers the merge rebuilds, in output order
SelectBlockNumbers(merged, mega, lim) ==
  TakeRight(Sort(Uniq(MapBlockNumber(merged \o mega))), lim)

\* a lookup that finds nothing
UndefinedBlock == [undefined |-> TRUE]

\* _.keyBy(rows, 'block_number')[n]: the last row with that number, or undefined
KeyByGet(rows, n) ==
  LET I == {i \in 1..Len(rows) : rows[i].block_number = n}
  IN IF I = {} THEN UndefinedBlock ELSE rows[Max(I)]

isMegabundleBlock(mergedBlock, megabundleBlock) ==
  IF mergedBlock = UndefinedBlock THEN TRUE
  ELSE IF megabundleBlock = UndefinedBlock THEN FALSE
  ELSE Len(megabundleBlock.transactions) > Len(mergedBlock.transactions)

\* the copy without the flag
CopiedOnly(tx) == tx

\* {...tx, is_megabundle: true}
Tagged(tx) == [tx EXCEPT !.is_megabundle = TRUE]

\* the test as a lookup of the merged hash among all megabundle hashes
LeaveUntaggedByHashSet(megaBundleTransactions, mergedTransactions, i) ==
  ~\E j \in 1..Len(megaBundleTransactions) :
      megaBundleTransactions[j].transaction_hash = mergedTransactions[i].transaction_hash

\* the test of the positional walk: TRUE leaves the transaction as it is
LeaveUntagged(megaBundleTransactions, mergedTransactions, i) ==
  \/ i > Len(megaBundleTransactions) /\ i <= Len(mergedTransactions)
  \/ megaBundleTransactions[i].transaction_hash # mergedTransactions[i].transaction_hash

\* the walk with the hash comparison alone, reading both transactions at i
WalkReadsBothAt(megaBundleTransactions, mergedTransactions, i) ==
  i > Len(megaBundleTransactions) \/ i > Len(mergedTransactions)

\* the walk reads a field of an undefined transaction: a TypeError
WalkThrowsAt(megaBundleTransactions, mergedTransactions, i) ==
  /\ ~(i > Len(megaBundleTransactions) /\ i <= Len(mergedTransactions))
  /\ (i > Len(megaBundleTransactions) \/ i > Len(mergedTransactions))

\* the megabundle view taken as the base of every block both channels hold
BaseBlockAlwaysMega(megaBundleBlock, mergedBlock) == megaBundleBlock

BaseBlock(megaBundleBlock, mergedBlock) ==
  IF isMegabundleBlock(mergedBlock, megaBundleBlock) THEN megaBundleBlock ELSE mergedBlock

\* inferMegabundleTransactionsByBlock raises an error
InferThrows(megaBundleBlock, mergedBlock) ==
  /\ megaBundleBlock # UndefinedBlock
  /\ mergedBlock # UndefinedBlock
  /\ Len(megaBundleBlock.transactions) <= Len(mergedBlock.transactions)
  /\ \E i \in 1..Len(BaseBlock(megaBundleBlock, mergedBlock).transactions) :
        WalkThrowsAt(megaBundleBlock.transactions, mergedBlock.transactions, i)

inferMegabundleTransactionsByBlock(megaBundleBlock, mergedBlock) ==
  IF megaBundleBlock = UndefinedBlock THEN mergedBlock
  ELSE IF \/ mergedBlock = UndefinedBlock
          \/ Len(megaBundleBlock.transactions) > Len(mergedBlock.transactions)
  THEN [megaBundleBlock EXCEPT
          !.transactions = [i \in 1..Len(megaBundleBlock.transactions) |->
                              Tagged(megaBundleBlock.transactions[i])]]
  ELSE LET baseBlock == BaseBlock(megaBundleBlock, mergedBlock)
       IN [baseBlock EXCEPT
             !.transactions = [i \in 1..Len(baseBlock.transactions) |->
                IF LeaveUntagged(megaBundleBlock.transactions, mergedBlock.transactions, i)
                THEN baseBlock.transactions[i]
                ELSE Tagged(baseBlock.transactions[i])]]

\* the merge with the two views passed in the order isMegabundleBlock takes them
ReconcileViewsSwapped(merged, mega, lim) ==
  LET blockNumbers == SelectBlockNumbers(merged, mega, lim)
  IN [k \in 1..Len(blockNumbers) |->
        inferMegabundleTransactionsByBlock(KeyByGet(merged, blockNumbers[k]),
                                           KeyByGet(mega, blockNumbers[k]))]

\* the merge of the two fetched result sets
Reconcile(merged, mega, lim) ==
  LET blockNumbers == SelectBlockNumbers(merged, mega, lim)
  IN [k \in 1..Len(blockNumbers) |->
        inferMegabundleTransactionsByBlock(KeyByGet(mega, blockNumbers[k]),
                                           KeyByGet(merged, blockNumbers[k]))]

ReconcileThrows(merged, mega, lim) ==
  LET blockNumbers == SelectBlockNumbers(merged, mega, lim)
  IN \E k \in 1..Len(blockNumbers) :
        InferThrows(KeyByGet(mega, blockNumbers[k]), KeyByGet(merged, blockNumbers[k]))

-----------------------------------------------------------------------------
(* Query parameters and their validation *)

DEFAULT_LIMIT == 100
MAX_LIMIT == 10000

LimitInputs ==
  {Absent, Str(<<"0">>), Str(<<"1">>), Str(<<"-", "1">>),
   Str(<<"1", "0", "0", "0", "0">>), Str(<<"1", "0", "0", "0", "1">>)}
BeforeInputs ==
  {Absent, Str(<<"l", "a", "t", "e", "s", "t">>), Str(<<"0">>), Str(<<"1", "1">>),
   Str(<<"-", "1">>), Str(<<"x">>)}
BlockNumberInputs == {Absent, Str(<<"0">>), Str(<<"1", "0">>), Str(<<"x">>)}
\* an address is one token: lower-case hex, or text that is no address
MinerInputs == {Absent, Str(<<"0xm1">>), Str(<<"zz">>)}
FromInputs == {Absent, Str(<<"0xbb">>), Str(<<"zz">>)}

Queries ==
  [limit : LimitInputs, before : BeforeInputs, block_number : BlockNumberInputs,
   miner : MinerInputs, from : FromInputs]
Supplied(q) ==
  Cardinality({f \in {"limit", "before", "block_number", "miner", "from"} : q[f].present})

\* utils.toChecksumAddress: the canonical form of a well-formed address
AddressForms ==
  {<<"0xaa", "0xAa">>, <<"0xAa", "0xAa">>, <<"0xbb", "0xBb">>, <<"0xBb", "0xBb">>,
   <<"0xm1", "0xM1">>, <<"0xM1", "0xM1">>, <<"0xm2", "0xM2">>, <<"0xM2", "0xM2">>}
WellFormedAddress(raw) == \E f \in AddressForms : f[1] = raw.chars[1]
toChecksumAddress(raw) ==
  Addr((CHOOSE f \in AddressForms : f[1] = raw.chars[1])[2])

\* `before = req.query.before; if (before === 'latest') before = ''`
BeforeOf(q) == IF q.before = Str(<<"l", "a", "t", "e", "s", "t">>) THEN Str(<<>>) ELSE q.before

LimitOf(q) == IF isNaN(parseInt(q.limit)) THEN DEFAULT_LIMIT ELSE parseInt(q.limit).val
LimitRejected(q) == LimitOf(q) < 0 \/ LimitOf(q) > MAX_LIMIT

BeforeIntOf(q) == IF Truthy(BeforeOf(q)) THEN parseInt(BeforeOf(q)) ELSE Undefined
BeforeRejected(q) == Truthy(BeforeOf(q)) /\ isNaN(parseInt(BeforeOf(q)))

BlockNumIntOf(q) == IF Truthy(q.block_number) THEN parseInt(q.block_number) ELSE Undefined
BlockNumRejected(q) == Truthy(q.block_number) /\ isNaN(parseInt(q.block_number))

AddressThrows(raw) == Truthy(raw) /\ ~WellFormedAddress(raw)
AddressOf(raw) == IF Truthy(raw) THEN toChecksumAddress(raw) ELSE NoAddr

\* responses
NoResponse == [status |-> 0]
ValidationError(param, got) == [status |-> 400, error |-> [param |-> param, got |-> got]]
\* a server error whose body carries the message of the caught error
ServerErrorWithDetail == [status |-> 500, body |-> "Internal Server Error", detail |-> "error"]
\* the catch block: status 500 and the fixed text, nothing of the caught error
InternalServerError == [status |-> 500, body |-> "Internal Server Error"]
BlocksResponse(blocks) ==
  [status |-> 200, paris |-> 0, blocks |-> blocks, latest_block_number |-> LatestBlockNumber]
TransactionsResponse(txs) ==
  [status |-> 200, transactions |-> txs, latest_block_number |-> LatestBlockNumber]

-----------------------------------------------------------------------------
(* The transactions query *)

TransactionRow(h, n) == [transaction_hash |-> h, block_number |-> n, eoa_address |-> Sender(h)]

Range(s) == {s[i] : i \in 1..Len(s)}
\* the rows of one block, in any order: the query orders by block_number only
BlockTxOrders(d, n) ==
  {[i \in 1..Len(p) |-> TransactionRow(p[i], n)] :
     p \in {l \in DistinctLists(Range(d[<<"merged", n>>])) : Len(l) = Len(d[<<"merged", n>>])}}

RECURSIVE TxOrders(_, _)
TxOrders(d, ns) ==
  IF Len(ns) = 0 THEN {<<>>}
  ELSE {p \o r : p \in BlockTxOrders(d, Head(ns)), r \in TxOrders(d, Tail(ns))}

\* the result sets the transactions query can return
TransactionResults(d, before, lim) ==
  {Take(t, lim) :
     t \in TxOrders(d, Desc(Selected(d, "merged", before, Undefined, NoAddr, NoAddr)))}

-----------------------------------------------------------------------------
(* The request handlers *)

Init ==
  /\ db \in Stores
  /\ pc = "idle"
  /\ op = "none"
  /\ query = [limit |-> Absent, before |-> Absent, block_number |-> Absent,
              miner |-> Absent, from |-> Absent]
  /\ limit = 0
  /\ beforeInt = Undefined
  /\ blockNumInt = Undefined
  /\ miner = NoAddr
  /\ from = NoAddr
  /\ mergedBundles = <<>>
  /\ megabundles = <<>>
  /\ inferredBundleBlocks = <<>>
  /\ transactions = <<>>
  /\ res = NoResponse
  /\ issued = <<>>
  /\ failed = "none"
  /\ sends = 0
  /\ route = "none"

Fetched == <<mergedBundles, megabundles, inferredBundleBlocks, transactions>>
Locals == <<limit, beforeInt, blockNumInt, miner, from>>

BlocksValidationPasses(q) ==
  /\ ~LimitRejected(q)
  /\ ~BeforeRejected(q)
  /\ ~BlockNumRejected(q)
  /\ ~AddressThrows(q.miner)
  /\ ~AddressThrows(q.from)
TransactionsValidationPasses(q) == ~LimitRejected(q) /\ ~BeforeRejected(q)

\* the regular-channel query issued ahead of the parameter checks
IssuedBeforeValidation(q) == <<"merged">>

\* the queries getPremergeBlocks has issued when it first yields: the
\* regular-channel query, reached only past every check of the parameters
IssuedByBlocksRequest(q) == IF BlocksValidationPasses(q) THEN <<"merged">> ELSE <<>>
IssuedByTransactionsRequest(q) ==
  IF TransactionsValidationPasses(q) THEN <<"transactions">> ELSE <<>>

\* getPremergeBlocks up to its first await: validation, then the regular-channel query
BlocksRequest(q) ==
  /\ pc = "idle"
  /\ op' = "blocks"
  /\ query' = q
  /\ limit' = LimitOf(q)
  /\ IF LimitRejected(q)
     THEN /\ res' = ValidationError("limit", q.limit)
          /\ pc' = "done"
          /\ UNCHANGED <<beforeInt, blockNumInt, miner, from>>
     ELSE IF BeforeRejected(q)
     THEN /\ res' = ValidationError("before", BeforeOf(q))
          /\ pc' = "done"
          /\ UNCHANGED <<beforeInt, blockNumInt, miner, from>>
     ELSE IF BlockNumRejected(q)
     THEN /\ res' = ValidationError("block_number", q.block_number)
          /\ pc' = "done"
          /\ beforeInt' = BeforeIntOf(q)
          /\ UNCHANGED <<blockNumInt, miner, from>>
     ELSE IF AddressThrows(q.miner) \/ AddressThrows(q.from)
     THEN /\ res' = InternalServerError
          /\ pc' = "done"
          /\ beforeInt' = BeforeIntOf(q)
          /\ blockNumInt' = BlockNumIntOf(q)
          /\ UNCHANGED <<miner, from>>
     ELSE /\ res' = NoResponse
          /\ pc' = "awaitMerged"
          /\ beforeInt' = BeforeIntOf(q)
          /\ blockNumInt' = BlockNumIntOf(q)
          /\ miner' = AddressOf(q.miner)
          /\ from' = AddressOf(q.from)
  /\ issued' = IssuedByBlocksRequest(q)
  /\ failed' = IF ~(LimitRejected(q) \/ BeforeRejected(q) \/ BlockNumRejected(q))
                   /\ (AddressThrows(q.miner) \/ AddressThrows(q.from))
                THEN "toChecksumAddress" ELSE "none"
  /\ sends' = IF BlocksValidationPasses(q) THEN 0 ELSE 1
  /\ UNCHANGED <<db, route, Fetched>>

\* the regular-channel rows arrive; the megabundle-channel query is issued
MergedReturns ==
  /\ pc = "awaitMerged"
  /\ mergedBundles' = Aggregate(db, "merged", beforeInt, blockNumInt, miner, from, limit)
  /\ pc' = "awaitMega"
  /\ issued' = Append(issued, "mega")
  /\ UNCHANGED <<db, route, op, query, Locals, megabundles, inferredBundleBlocks, transactions, res,
                 failed, sends>>

\* a query of the blocks handler is rejected by the data store: the catch block
BlocksQueryFails ==
  /\ pc \in {"awaitMerged", "awaitMega", "awaitLatest"}
  /\ res' = InternalServerError
  /\ pc' = "done"
  /\ failed' = issued[Len(issued)]
  /\ sends' = sends + 1
  /\ UNCHANGED <<db, route, op, query, Locals, Fetched, issued>>

\* the rows after a merge that sets is_megabundle on the transactions it is given
RowsTaggedInPlace(rows, other, lim) ==
  [k \in 1..Len(rows) |->
     [rows[k] EXCEPT !.transactions =
        [i \in 1..Len(rows[k].transactions) |-> Tagged(rows[k].transactions[i])]]]

\* what the merge leaves in the rows it was given: it copies ({...block}, {...tx},
\* [...rows]) whatever it changes, so the rows are as they were fetched
RowsAfterMerge(rows, other, lim) == rows

\* the megabundle-channel rows arrive; the merge runs; the latest-block query is issued
MegaReturns ==
  /\ pc = "awaitMega"
  /\ LET mega == Aggregate(db, "mega", beforeInt, blockNumInt, miner, from, limit)
     IN IF ReconcileThrows(mergedBundles, mega, limit)
        THEN /\ megabundles' = mega
             /\ res' = InternalServerError
             /\ pc' = "done"
             /\ failed' = "inferMegabundleTransactionsByBlock"
             /\ sends' = sends + 1
             /\ UNCHANGED <<mergedBundles, inferredBundleBlocks, issued>>
        ELSE /\ inferredBundleBlocks' = Reconcile(mergedBundles, mega, limit)
             /\ mergedBundles' = RowsAfterMerge(mergedBundles, mega, limit)
             /\ megabundles' = RowsAfterMerge(mega, mergedBundles, limit)
             /\ pc' = "awaitLatest"
             /\ issued' = Append(issued, "latest")
             /\ UNCHANGED <<res, failed, sends>>
  /\ UNCHANGED <<db, route, op, query, Locals, transactions>>

\* the latest block number arrives; the response is sent
BlocksRespond ==
  /\ pc = "awaitLatest"
  /\ res' = BlocksResponse(inferredBundleBlocks)
  /\ pc' = "done"
  /\ sends' = sends + 1
  /\ UNCHANGED <<db, route, op, query, Locals, Fetched, issued, failed>>

\* getPremergeTransactions up to its first await
TransactionsRequest(q) ==
  /\ pc = "idle"
  /\ op' = "transactions"
  /\ query' = q
  /\ limit' = LimitOf(q)
  /\ IF LimitRejected(q)
     THEN /\ res' = ValidationError("limit", q.limit)
          /\ pc' = "done"
          /\ UNCHANGED beforeInt
     ELSE IF BeforeRejected(q)
     THEN /\ res' = ValidationError("before", BeforeOf(q))
          /\ pc' = "done"
          /\ UNCHANGED beforeInt
     ELSE /\ res' = NoResponse
          /\ pc' = "awaitTransactions"
          /\ beforeInt' = BeforeIntOf(q)
  /\ issued' = IssuedByTransactionsRequest(q)
  /\ sends' = IF TransactionsValidationPasses(q) THEN 0 ELSE 1
  /\ UNCHANGED <<db, route, blockNumInt, miner, from, Fetched, failed>>

TransactionsReturn ==
  /\ pc = "awaitTransactions"
  /\ transactions' \in TransactionResults(db, beforeInt, limit)
  /\ pc' = "awaitLatestTx"
  /\ issued' = Append(issued, "latest")
  /\ UNCHANGED <<db, route, op, query, Locals, mergedBundles, megabundles, inferredBundleBlocks, res,
                 failed, sends>>

TransactionsQueryFails ==
  /\ pc \in {"awaitTransactions", "awaitLatestTx"}
  /\ res' = InternalServerError
  /\ pc' = "done"
  /\ failed' = issued[Len(issued)]
  /\ sends' = sends + 1
  /\ UNCHANGED <<db, route, op, query, Locals, Fetched, issued>>

TransactionsRespond ==
  /\ pc = "awaitLatestTx"
  /\ res' = TransactionsResponse(transactions)
  /\ pc' = "done"
  /\ sends' = sends + 1
  /\ UNCHANGED <<db, route, op, query, Locals, Fetched, issued, failed>>

\* the requests of the model: at most MaxParams parameters are supplied; the
\* transactions handler reads `limit` and `before` only
BlocksQueries == {q \in Queries : Supplied(q) <= MaxParams}
TransactionsQueries ==
  {q \in Queries : Supplied(q) <= MaxParams /\ ~q.block_number.present
                   /\ ~q.miner.present /\ ~q.from.present}

Next ==
  \/ \E q \in BlocksQueries : BlocksRequest(q)
  \/ MergedReturns
  \/ MegaReturns
  \/ BlocksRespond
  \/ BlocksQueryFails
  \/ \E q \in TransactionsQueries : TransactionsRequest(q)
  \/ TransactionsReturn
  \/ TransactionsRespond
  \/ TransactionsQueryFails

Spec == Init /\ [][Next]_vars

\* the same handlers over stores with one more view, enough for a channel to
\* hold more blocks than the limit while the other channel holds one of them
WiderStores ==
  UNION {[S -> TxLists] : S \in {T \in SUBSET Slots : Cardinality(T) <= MaxViews + 1}}
WiderInit ==
  /\ db \in WiderStores
  /\ pc = "idle"
  /\ op = "none"
  /\ query = [limit |-> Absent, before |-> Absent, block_number |-> Absent,
              miner |-> Absent, from |-> Absent]
  /\ limit = 0
  /\ beforeInt = Undefined
  /\ blockNumInt = Undefined
  /\ miner = NoAddr
  /\ from = NoAddr
  /\ mergedBundles = <<>>
  /\ megabundles = <<>>
  /\ inferredBundleBlocks = <<>>
  /\ transactions = <<>>
  /\ res = NoResponse
  /\ issued = <<>>
  /\ failed = "none"
  /\ sends = 0
  /\ route = "none"
TruncationSpec == WiderInit /\ [][Next]_vars

-----------------------------------------------------------------------------
(* The era router *)

\* the configured transition block number
Cutoff == 10

\* a normalised block number that is set and below the cutoff
BeforeCutoff(n) == n.def /\ n.val < Cutoff

\* a router that looks at the `before` cursor only
RouteOnBeforeOnly(blockNum, before) ==
  IF BeforeCutoff(before) THEN "dual" ELSE "single"

\* the routing key: the block_number filter or the before cursor below the cutoff
Route(blockNum, before) ==
  IF BeforeCutoff(blockNum) \/ BeforeCutoff(before) THEN "dual" ELSE "single"

\* the router receives a request the normaliser accepted and picks its path
RouteRequest(q) ==
  /\ pc = "idle"
  /\ BlocksValidationPasses(q)
  /\ op' = "blocks"
  /\ query' = q
  /\ limit' = LimitOf(q)
  /\ beforeInt' = BeforeIntOf(q)
  /\ blockNumInt' = BlockNumIntOf(q)
  /\ miner' = AddressOf(q.miner)
  /\ from' = AddressOf(q.from)
  /\ route' = Route(BlockNumIntOf(q), BeforeIntOf(q))
  /\ pc' = "routed"
  /\ UNCHANGED <<db, Fetched, res, issued, failed, sends>>

RouterNext == \E q \in BlocksQueries : RouteRequest(q)
RouterSpec == Init /\ [][RouterNext]_vars

-----------------------------------------------------------------------------
(* Properties of the responses *)

BlocksAnswered == pc = "done" /\ op = "blocks" /\ res.status = 200
TransactionsAnswered == pc = "done" /\ op = "transactions" /\ res.status = 200

\* the block numbers of either fetched result set
FetchedBlockNumbers == Range(MapBlockNumber(mergedBundles \o megabundles))
\* the n numerically highest members of S (all of S when it has fewer)
Highest(S, n) == Range(Take(Desc(S), n))
NoDuplicates(s) == \A i, j \in 1..Len(s) : i # j => s[i] # s[j]

\* C1: the block numbers of a blocks response are exactly the `limit` numerically
\* highest distinct block numbers of the two fetched result sets, each exactly once.
C1_ResponseHoldsHighestBlocks ==
  BlocksAnswered =>
    /\ Range(MapBlockNumber(res.blocks)) = Highest(FetchedBlockNumbers, limit)
    /\ NoDuplicates(MapBlockNumber(res.blocks))

\* C2: with a limit in 1..MAX_LIMIT, a response holds at most `limit` blocks
\* (after the merge of the two independently limited result sets) or transactions.
C2_AtMostLimitReturned ==
  (pc = "done" /\ res.status = 200 /\ limit \in 1..MAX_LIMIT) =>
    /\ op = "blocks" => Len(res.blocks) <= limit
    /\ op = "transactions" => Len(res.transactions) <= limit

\* the union of the two result sets holds 2 * limit block numbers and the response
\* holds `limit` of them
C2_Witness ==
  /\ BlocksAnswered
  /\ limit \in 1..MAX_LIMIT
  /\ Cardinality(FetchedBlockNumbers) = 2 * limit
  /\ Len(res.blocks) = limit

\* the request supplies an integer limit that is <= 0 or > MAX_LIMIT
LimitOutOfRange ==
  /\ ~isNaN(parseInt(query.limit))
  /\ (parseInt(query.limit).val <= 0 \/ parseInt(query.limit).val > MAX_LIMIT)

\* C3: a supplied limit outside (0, MAX_LIMIT] is answered by the validation
\* error that names the supplied value, and by no block or transaction list.
C3_LimitOutOfRangeRejected ==
  (pc = "done" /\ LimitOutOfRange) => res = ValidationError("limit", query.limit)

\* the request supplies `before` as an integer
BeforeWellFormed == Truthy(BeforeOf(query)) /\ ~isNaN(parseInt(BeforeOf(query)))

\* C4: with a well-formed `before` (0 and negative values included), no returned
\* block or transaction has block_number >= before.
C4_BeforeIsExclusiveBound ==
  (pc = "done" /\ res.status = 200 /\ BeforeWellFormed) =>
    /\ op = "blocks" =>
         \A k \in 1..Len(res.blocks) :
            res.blocks[k].block_number < parseInt(BeforeOf(query)).val
    /\ op = "transactions" =>
         \A k \in 1..Len(res.transactions) :
            res.transactions[k].block_number < parseInt(BeforeOf(query)).val

\* the request supplies `block_number` as an integer
BlockNumberWellFormed == Truthy(query.block_number) /\ ~isNaN(parseInt(query.block_number))

\* C5: with a block_number parameter that parses as n (0 included), every returned
\* block has block_number n, so there is at most one.
C5_BlockNumberSelectsOneBlock ==
  (BlocksAnswered /\ BlockNumberWellFormed) =>
    /\ \A k \in 1..Len(res.blocks) :
          res.blocks[k].block_number = parseInt(query.block_number).val
    /\ Len(res.blocks) <= 1

-----------------------------------------------------------------------------
(* Properties of the merge *)

\* the merge has run on the fetched result sets
Merged == op = "blocks" /\ (pc = "awaitLatest" \/ (pc = "done" /\ res.status = 200))

\* the two views of the k-th output block
MergedView(k) == KeyByGet(mergedBundles, inferredBundleBlocks[k].block_number)
MegaView(k) == KeyByGet(megabundles, inferredBundleBlocks[k].block_number)
TxCount(view) == Len(view.transactions)

\* the megabundle view is the canonical one: the merged view is absent or shorter
MegaCanonical(k) ==
  /\ MegaView(k) # UndefinedBlock
  /\ (MergedView(k) = UndefinedBlock \/ TxCount(MegaView(k)) > TxCount(MergedView(k)))
\* both views exist and the merged one has at least as many transactions
MergedCanonicalOfTwo(k) ==
  /\ MegaView(k) # UndefinedBlock
  /\ MergedView(k) # UndefinedBlock
  /\ TxCount(MergedView(k)) >= TxCount(MegaView(k))

\* C6: where the merged view is absent or the megabundle view is strictly longer,
\* the output block is the megabundle view: its N transactions in its order, all
\* tagged is_megabundle.
C6_MegabundleViewIsOutput ==
  Merged =>
    \A k \in 1..Len(inferredBundleBlocks) :
       MegaCanonical(k) =>
         /\ [inferredBundleBlocks[k] EXCEPT !.transactions = <<>>]
              = [MegaView(k) EXCEPT !.transactions = <<>>]
         /\ Len(inferredBundleBlocks[k].transactions) = TxCount(MegaView(k))
         /\ \A i \in 1..TxCount(MegaView(k)) :
               /\ inferredBundleBlocks[k].transactions[i].is_megabundle
               /\ inferredBundleBlocks[k].transactions[i].transaction_hash
                    = MegaView(k).transactions[i].transaction_hash
               /\ inferredBundleBlocks[k].transactions[i].eoa_address
                    = MegaView(k).transactions[i].eoa_address

\* a response with a block whose merged view has 1 transaction and whose megabundle
\* view has 2: the output block has the 2, both tagged
C6_Witness ==
  /\ BlocksAnswered
  /\ res.blocks = inferredBundleBlocks
  /\ \E k \in 1..Len(inferredBundleBlocks) :
        /\ MegaCanonical(k)
        /\ MergedView(k) # UndefinedBlock
        /\ TxCount(MergedView(k)) = 1
        /\ Len(inferredBundleBlocks[k].transactions) = 2
        /\ inferredBundleBlocks[k].transactions[2].is_megabundle

\* a response with a block that has a megabundle view only
C6_WitnessMergedAbsent ==
  /\ BlocksAnswered
  /\ \E k \in 1..Len(inferredBundleBlocks) :
        /\ MegaCanonical(k)
        /\ MergedView(k) = UndefinedBlock
        /\ inferredBundleBlocks[k].transactions[1].is_megabundle

\* the megabundle view has, at position i, the hash the merged view has there
SameHashAt(k, i) ==
  /\ i <= TxCount(MegaView(k))
  /\ MegaView(k).transactions[i].transaction_hash
       = MergedView(k).transactions[i].transaction_hash

\* C7: where both views exist and the merged one is at least as long, the output
\* holds the merged view's transactions in its order, and position i is tagged
\* exactly when the megabundle view has the same hash at position i.
C7_PositionalAttribution ==
  Merged =>
    \A k \in 1..Len(inferredBundleBlocks) :
       MergedCanonicalOfTwo(k) =>
         /\ [inferredBundleBlocks[k] EXCEPT !.transactions = <<>>]
              = [MergedView(k) EXCEPT !.transactions = <<>>]
         /\ Len(inferredBundleBlocks[k].transactions) = TxCount(MergedView(k))
         /\ \A i \in 1..TxCount(MergedView(k)) :
               /\ inferredBundleBlocks[k].transactions[i].transaction_hash
                    = MergedView(k).transactions[i].transaction_hash
               /\ inferredBundleBlocks[k].transactions[i].eoa_address
                    = MergedView(k).transactions[i].eoa_address
               /\ inferredBundleBlocks[k].transactions[i].is_megabundle <=> SameHashAt(k, i)

\* a response with a block whose merged transaction at some position is in the
\* megabundle view at another position only, and is untagged
C7_Witness ==
  /\ BlocksAnswered
  /\ res.blocks = inferredBundleBlocks
  /\ \E k \in 1..Len(inferredBundleBlocks) :
        /\ MergedCanonicalOfTwo(k)
        /\ \E i \in 1..TxCount(MergedView(k)), j \in 1..TxCount(MegaView(k)) :
              /\ i # j
              /\ MegaView(k).transactions[j].transaction_hash
                   = MergedView(k).transactions[i].transaction_hash
              /\ ~SameHashAt(k, i)
              /\ ~inferredBundleBlocks[k].transactions[i].is_megabundle

\* a response with a block whose first transaction is tagged and whose second,
\* past the end of the megabundle view, is not
C7_WitnessPartlyTagged ==
  /\ BlocksAnswered
  /\ \E k \in 1..Len(inferredBundleBlocks) :
        /\ MergedCanonicalOfTwo(k)
        /\ TxCount(MegaView(k)) = 1
        /\ TxCount(MergedView(k)) = 2
        /\ inferredBundleBlocks[k].transactions[1].is_megabundle
        /\ ~inferredBundleBlocks[k].transactions[2].is_megabundle

\* C8: a block number with no row in the megabundle result set is output as its
\* merged row, unchanged, and none of its transactions carries is_megabundle.
C8_NoMegabundleRowNoTag ==
  Merged =>
    \A k \in 1..Len(inferredBundleBlocks) :
       MegaView(k) = UndefinedBlock =>
         /\ inferredBundleBlocks[k] = MergedView(k)
         /\ \A i \in 1..Len(inferredBundleBlocks[k].transactions) :
               ~inferredBundleBlocks[k].transactions[i].is_megabundle

\* a response with a block fetched on the regular channel only, next to a block
\* the megabundle channel has
C8_Witness ==
  /\ BlocksAnswered
  /\ res.blocks = inferredBundleBlocks
  /\ \E k \in 1..Len(inferredBundleBlocks) :
        MegaView(k) = UndefinedBlock /\ TxCount(MergedView(k)) >= 1
  /\ \E k \in 1..Len(inferredBundleBlocks) : MegaView(k) # UndefinedBlock

\* C9: the block list of a response is in descending order of block_number.
C9_BlocksDescending ==
  BlocksAnswered =>
    \A i, j \in 1..Len(res.blocks) :
       i < j => res.blocks[i].block_number > res.blocks[j].block_number


NoneTagged(rows) ==
  \A k \in 1..Len(rows) : \A i \in 1..Len(rows[k].transactions) :
     ~rows[k].transactions[i].is_megabundle

-----------------------------------------------------------------------------
(* Properties of the error paths *)

\* the request passes the limit, before and block_number checks and supplies a
\* miner or from address that toChecksumAddress refuses
MalformedAddress ==
  /\ op = "blocks"
  /\ ~LimitRejected(query)
  /\ ~BeforeRejected(query)
  /\ ~BlockNumRejected(query)
  /\ (AddressThrows(query.miner) \/ AddressThrows(query.from))

\* C11: a malformed miner or from address is a validation error: the request is
\* answered with the client-error status and an error naming the address
\* parameter and the supplied value.
C11_MalformedAddressIsValidationError ==
  (pc = "done" /\ MalformedAddress) =>
    /\ res.status = 400
    /\ \/ AddressThrows(query.miner) /\ res = ValidationError("miner", query.miner)
       \/ AddressThrows(query.from) /\ res = ValidationError("from", query.from)

\* the request was answered by a validation error, or stopped at a malformed address
EndedInValidation ==
  /\ pc = "done"
  /\ (res.status = 400 \/ failed = "toChecksumAddress")

\* C12: an execution that ends at a validation failure has issued no data-store
\* query: neither aggregation, no transactions query, no latest-block query.
C12_NoFetchOnValidationError == EndedInValidation => issued = <<>>

\* a request turned down at the last parameter check, block_number
C12_Witness ==
  /\ pc = "done"
  /\ op = "blocks"
  /\ res = ValidationError("block_number", query.block_number)
  /\ issued = <<>>

\* a data-store query of the blocks operation was rejected
FetchFailed == op = "blocks" /\ failed \in {"merged", "mega", "latest"}

\* C13: when a fetch of the blocks operation fails (either aggregation or the
\* latest-block lookup), the request ends with one response, status 500 with
\* the fixed text and nothing else (no blocks, no detail of the error); no query
\* is issued twice, none is issued after the failed one, and the merge output
\* is not sent.
C13_FetchFailureIsOneGenericError ==
  FetchFailed =>
    /\ pc = "done"
    /\ sends = 1
    /\ res.status = 500
    /\ res.body = "Internal Server Error"
    /\ DOMAIN res = {"status", "body"}
    /\ \A i, j \in 1..Len(issued) : issued[i] = issued[j] => i = j
    /\ issued[Len(issued)] = failed

\* the latest-block lookup failed after a merge that produced blocks
C13_Witness ==
  /\ FetchFailed
  /\ failed = "latest"
  /\ Len(inferredBundleBlocks) > 0
  /\ res.status = 500

-----------------------------------------------------------------------------
(* Properties of the address filters *)

\* the transaction list holds a transaction sent by address a
HasSender(txs, a) == \E i \in 1..Len(txs) : txs[i].eoa_address = a

\* C14: under a `from` filter every block of the response has, in its own
\* transaction list, a transaction whose eoa_address is the checksummed `from`,
\* whichever view the block was built from.
C14_FromFilterInEveryBlock ==
  (BlocksAnswered /\ from.def) =>
    \A k \in 1..Len(res.blocks) : HasSender(res.blocks[k].transactions, from.addr)

\* a filtered response with a block that one channel holds without the sender,
\* so that only the other channel's view was fetched
C14_Witness ==
  /\ BlocksAnswered
  /\ from.def
  /\ res.blocks = inferredBundleBlocks
  /\ \E k \in 1..Len(res.blocks) :
        /\ <<"merged", res.blocks[k].block_number>> \in DOMAIN db
        /\ <<"mega", res.blocks[k].block_number>> \in DOMAIN db
        /\ (MergedView(k) = UndefinedBlock \/ MegaView(k) = UndefinedBlock)

-----------------------------------------------------------------------------
(* Properties of the era router *)

\* the raw parameter is an integer below the cutoff
BelowCutoff(raw) ==
  /\ Truthy(raw)
  /\ ~isNaN(parseInt(raw))
  /\ parseInt(raw).val < Cutoff

\* C15: a valid request goes to the dual-channel path if and only if its
\* block_number or its before is below the cutoff, and to the single-channel
\* path otherwise; so a block_number below the cutoff gives the dual-channel
\* path also when before is absent, `latest`, or at or above the cutoff.
C15_EraRouting ==
  pc = "routed" =>
    /\ route \in {"dual", "single"}
    /\ route = "dual" <=>
         (BelowCutoff(query.block_number) \/ BelowCutoff(BeforeOf(query)))

\* block_number below the cutoff with before at or above it, routed to the dual path
C15_Witness ==
  /\ pc = "routed"
  /\ route = "dual"
  /\ BelowCutoff(query.block_number)
  /\ Truthy(BeforeOf(query))
  /\ ~BelowCutoff(BeforeOf(query))

\* a request with neither key below the cutoff, routed to the single path
C15_WitnessSingle ==
  /\ pc = "routed"
  /\ route = "single"
  /\ Truthy(query.block_number)
  /\ Truthy(BeforeOf(query))

-----------------------------------------------------------------------------
(* Properties of the block-level fields *)

\* the view the k-th output block is built from: the megabundle view when the
\* merged view is absent or shorter, the merged view otherwise
CanonicalView(k) == IF MegaCanonical(k) THEN MegaView(k) ELSE MergedView(k)

\* the fields of a row other than its transaction list
BlockFields(row) == [f \in DOMAIN row \ {"transactions"} |-> row[f]]

\* C16: every block-level field of an output block (block_number, miner,
\* miner_reward, coinbase_transfers, gas_used, gas_price and their aliases)
\* is that of the one view chosen as canonical for the block; nothing is summed
\* or mixed across the two views.
C16_BlockFieldsFromCanonicalView ==
  Merged =>
    \A k \in 1..Len(inferredBundleBlocks) :
       BlockFields(inferredBundleBlocks[k]) = BlockFields(CanonicalView(k))

\* a block both channels hold with different totals, the merged view canonical
C16_Witness ==
  /\ BlocksAnswered
  /\ res.blocks = inferredBundleBlocks
  /\ \E k \in 1..Len(inferredBundleBlocks) :
        /\ MergedCanonicalOfTwo(k)
        /\ MegaView(k).miner_reward # MergedView(k).miner_reward
        /\ MegaView(k).gas_used # MergedView(k).gas_used
        /\ res.blocks[k].miner_reward = MergedView(k).miner_reward

\* a block both channels hold with different totals, the megabundle view canonical
C16_WitnessMega ==
  /\ BlocksAnswered
  /\ res.blocks = inferredBundleBlocks
  /\ \E k \in 1..Len(inferredBundleBlocks) :
        /\ MegaCanonical(k)
        /\ MergedView(k) # UndefinedBlock
        /\ MegaView(k).gas_price # MergedView(k).gas_price
        /\ res.blocks[k].gas_price = MegaView(k).gas_price

-----------------------------------------------------------------------------
(* Properties of the per-channel limit *)

\* the rows a channel would return for the request without its LIMIT
AllRows(ch) ==
  Aggregate(db, ch, beforeInt, blockNumInt, miner, from, Cardinality(BlockNumbers))
AllBlockNumbers == Range(MapBlockNumber(AllRows("merged") \o AllRows("mega")))

\* the two untruncated result sets merged block by block, the `limit`
\* numerically highest block numbers kept
UntruncatedMerge ==
  {inferMegabundleTransactionsByBlock(KeyByGet(AllRows("mega"), n),
                                      KeyByGet(AllRows("merged"), n)) :
     n \in Highest(AllBlockNumbers, limit)}

\* an output block was merged without a view its channel holds for it
ViewLostToLimit ==
  \E k \in 1..Len(inferredBundleBlocks) :
     \/ /\ MergedView(k) = UndefinedBlock
        /\ KeyByGet(AllRows("merged"), inferredBundleBlocks[k].block_number) # UndefinedBlock
     \/ /\ MegaView(k) = UndefinedBlock
        /\ KeyByGet(AllRows("mega"), inferredBundleBlocks[k].block_number) # UndefinedBlock

\* C17: with a limit >= 1, merging the two result sets each cut to `limit` rows
\* gives the blocks (numbers, canonical view, tags) that merging the two uncut
\* result sets and keeping the `limit` highest block numbers gives, and no
\* output block lacks a view because the view fell outside its channel's limit.
C17_TruncationLosesNothing ==
  (Merged /\ limit >= 1) =>
    /\ Range(inferredBundleBlocks) = UntruncatedMerge
    /\ ~ViewLostToLimit

\* a merge that ran on a block whose merged view was cut off by the limit
C17_ViewLostReached == Merged /\ limit >= 1 /\ ViewLostToLimit

-----------------------------------------------------------------------------
(* Totality of the merge *)

\* the k-th output block went through the positional walk: both views are
\* fetched and the megabundle view is not the longer one
PositionalBranch(k) ==
  /\ MegaView(k) # UndefinedBlock
  /\ MergedView(k) # UndefinedBlock
  /\ TxCount(MegaView(k)) <= TxCount(MergedView(k))

\* C18: inferMegabundleTransactionsByBlock never raises an error: no request
\* ends in its TypeError, and for every block that takes the positional walk
\* the base block is the merged view, every walked position holds a merged
\* transaction, and no position reads a field of an undefined transaction.
C18_InferIsTotal ==
  /\ failed # "inferMegabundleTransactionsByBlock"
  /\ Merged =>
       \A k \in 1..Len(inferredBundleBlocks) :
          PositionalBranch(k) =>
            /\ BaseBlock(MegaView(k), MergedView(k)) = MergedView(k)
            /\ ~isMegabundleBlock(MergedView(k), MegaView(k))
            /\ \A i \in 1..TxCount(BaseBlock(MegaView(k), MergedView(k))) :
                  /\ i <= TxCount(MergedView(k))
                  /\ ~WalkThrowsAt(MegaView(k).transactions, MergedView(k).transactions, i)

\* a positional walk that went past the end of the megabundle transaction list
C18_Witness ==
  /\ BlocksAnswered
  /\ res.blocks = inferredBundleBlocks
  /\ \E k \in 1..Len(inferredBundleBlocks) :
        /\ PositionalBranch(k)
        /\ TxCount(MegaView(k)) < TxCount(MergedView(k))
        /\ TxCount(res.blocks[k]) = TxCount(MergedView(k))

-----------------------------------------------------------------------------
(* Address filters and the reconstruction of a block *)

\* the blocks the operation returns for block_number = n and no other parameter
BlockByNumber(n) ==
  Reconcile(Aggregate(db, "merged", Undefined, Num(n), NoAddr, NoAddr, DEFAULT_LIMIT),
            Aggregate(db, "mega", Undefined, Num(n), NoAddr, NoAddr, DEFAULT_LIMIT),
            DEFAULT_LIMIT)

\* C19: a block returned under a `from` or `miner` filter is the block the
\* operation returns for its number when queried with block_number alone:
\* same canonical view, same transaction list, same is_megabundle tags.
C19_AddressFiltersOnlySelect ==
  (BlocksAnswered /\ (from.def \/ miner.def)) =>
    \A k \in 1..Len(res.blocks) :
       BlockByNumber(res.blocks[k].block_number) = <<res.blocks[k]>>

====
